---- MODULE Spec2Model ----
(***************************************************************************)
(* Model of the fixed-capacity Queue<T, C> (src/src/queue.rs) and          *)
(* Stack<T, C> (src/src/stack.rs).                                         *)
(*                                                                         *)
(* A behaviour constructs one container with new() for a capacity C and    *)
(* then calls its public operations in any order with any arguments.       *)
(* Slot arrays are functions over 0..C-1, as the Rust arrays are indexed.  *)
(* Option and Result values are tagged tuples.  A Rust panic (index out of *)
(* bounds, remainder by zero, arithmetic overflow) is recorded in `fault`  *)
(* and ends the run.                                                       *)
(***************************************************************************)
EXTENDS Integers, Sequences, FiniteSets

\* ---- bounds of the model ------------------------------------------------
\* Largest capacity C that is instantiated (C ranges over 0..MaxC).
MaxC == 3
\* Elements are drawn from 1..NumVals.
NumVals == 2
\* Number of enqueue (resp. push) calls made on one container in one behaviour.
MaxEnq == 6
\* get() is called with every index in 0..MaxIndex.
MaxIndex == 3

Vals == 1..NumVals
Indices == 0..MaxIndex

VARIABLES
    C,          \* the const parameter C of the container under test
    subject,    \* "Queue" or "Stack": the type that was instantiated
    queue,      \* the Queue value  [elements, head, length]
    stack,      \* the Stack value  [elements, length]
    op,         \* name of the last call made ("new" after construction)
    arg,        \* its argument, as an Option
    ret,        \* the value it returned
    fault,      \* NoFault, or the panic that ended the run
    enqueued,   \* history: elements of the enqueue calls that returned Ok
    dequeued,   \* history: elements returned by dequeue calls as Some
    live,       \* history: pushed elements that no pop has returned yet
    calls       \* number of enqueue/push calls made so far

vars == <<C, subject, queue, stack, op, arg, ret, fault, enqueued, dequeued, live, calls>>

\* ---- Option<T>, Result<(), T> and panics --------------------------------
None == <<"None">>
Some(x) == <<"Some", x>>
Ok == <<"Ok">>
Err(x) == <<"Err", x>>
is_some(o) == o[1] = "Some"
unwrap(o) == o[2]

NoFault == "none"
OutOfBounds == "index out of bounds"
RemByZero == "remainder with a divisor of zero"
SubOverflow == "attempt to subtract with overflow"

\* usize `a % b`: panics when b = 0.
Rem(a, b) ==
    IF b = 0 THEN [val |-> 0, fault |-> RemByZero]
    ELSE [val |-> a % b, fault |-> NoFault]

\* usize `a - b`: overflows when a < b.
Sub(a, b) ==
    IF a < b THEN [val |-> 0, fault |-> SubOverflow]
    ELSE [val |-> a - b, fault |-> NoFault]

\* Outcome of a call: the container afterwards, the value returned, the panic.
Done(self, r) == [self |-> self, ret |-> r, fault |-> NoFault]
Panic(self, f) == [self |-> self, ret |-> None, fault |-> f]

\* ---- Queue<T, C> --------------------------------------------------------
\* Mutation of Queue_new: length is initialised to the capacity.
Queue_new_full ==
    [elements |-> [i \in 0..(C - 1) |-> None], head |-> 0, length |-> C]

Queue_new ==
    [elements |-> [i \in 0..(C - 1) |-> None], head |-> 0, length |-> 0]

Queue_capacity(self) == C

Queue_len(self) == self.length

Queue_is_empty(self) == Queue_len(self) = 0

\* Mutation of Queue_is_full: `>` written for `==`.
Queue_is_full_gt(self) == Queue_len(self) > Queue_capacity(self)

Queue_is_full(self) == Queue_len(self) = Queue_capacity(self)

Queue_head(self) == self.head

\* Mutation of Queue_tail: the head offset is forgotten.
Queue_tail_no_head(self) == Rem(Queue_len(self), Queue_capacity(self))

Queue_tail(self) == Rem(self.head + Queue_len(self), Queue_capacity(self))

Queue_as_slice(self) == self.elements

\* Mutation of Queue_get: the `index >= len` check is missing.
Queue_get_unchecked(self, index) ==
    LET i == Rem(self.head + index, Queue_capacity(self)) IN
    IF i.fault # NoFault THEN Panic(self, i.fault)
    ELSE IF i.val \notin DOMAIN self.elements THEN Panic(self, OutOfBounds)
    ELSE Done(self, self.elements[i.val])

\* Mutation of Queue_get: the slot is indexed physically, without the head offset.
Queue_get_physical(self, index) ==
    IF index >= Queue_len(self) THEN Done(self, None)
    ELSE LET i == Rem(index, Queue_capacity(self)) IN
         IF i.fault # NoFault THEN Panic(self, i.fault)
         ELSE IF i.val \notin DOMAIN self.elements THEN Panic(self, OutOfBounds)
         ELSE Done(self, self.elements[i.val])

Queue_get(self, index) ==
    IF index >= Queue_len(self) THEN Done(self, None)
    ELSE LET i == Rem(self.head + index, Queue_capacity(self)) IN
         IF i.fault # NoFault THEN Panic(self, i.fault)
         ELSE IF i.val \notin DOMAIN self.elements THEN Panic(self, OutOfBounds)
         ELSE Done(self, self.elements[i.val])

\* Mutation of Queue_enqueue: the is_full() check is missing.
\* Mutation of Queue_enqueue: the element is stored but length is not incremented.
Queue_enqueue_no_len(self, element) ==
    IF Queue_is_full(self) THEN Done(self, Err(element))
    ELSE LET t == Queue_tail(self) IN
         IF t.fault # NoFault THEN Panic(self, t.fault)
         ELSE IF t.val \notin DOMAIN self.elements THEN Panic(self, OutOfBounds)
         ELSE Done([self EXCEPT !.elements[t.val] = Some(element)], Ok)

Queue_enqueue_unchecked(self, element) ==
    LET t == Queue_tail(self) IN
    IF t.fault # NoFault THEN Panic(self, t.fault)
    ELSE IF t.val \notin DOMAIN self.elements THEN Panic(self, OutOfBounds)
    ELSE Done([self EXCEPT !.elements[t.val] = Some(element),
                           !.length = @ + 1], Ok)

Queue_enqueue(self, element) ==
    IF Queue_is_full(self) THEN Done(self, Err(element))
    ELSE LET t == Queue_tail(self) IN
         IF t.fault # NoFault THEN Panic(self, t.fault)
         ELSE IF t.val \notin DOMAIN self.elements THEN Panic(self, OutOfBounds)
         ELSE Done([self EXCEPT !.elements[t.val] = Some(element),
                                !.length = @ + 1], Ok)

\* Mutation of Queue_dequeue: the slot is read, not taken, so it keeps the element.
\* Mutation of Queue_dequeue: emptiness is decided by tail() == head().
Queue_dequeue_tail_check(self) ==
    IF Queue_head(self) \notin DOMAIN self.elements THEN Panic(self, OutOfBounds)
    ELSE LET element == self.elements[Queue_head(self)]
             taken == [self EXCEPT !.elements[Queue_head(self)] = None]
             h == Rem(self.head + 1, Queue_capacity(self))
             l == Sub(self.length, 1)
         IN  IF Queue_tail(self).val = Queue_head(self) THEN Done(self, None)
             ELSE IF h.fault # NoFault THEN Panic(taken, h.fault)
             ELSE IF l.fault # NoFault THEN Panic(taken, l.fault)
             ELSE Done([taken EXCEPT !.head = h.val, !.length = l.val], element)

\* Mutation of Queue_dequeue: head is incremented without the modulo.
Queue_dequeue_no_wrap(self) ==
    IF Queue_head(self) \notin DOMAIN self.elements THEN Panic(self, OutOfBounds)
    ELSE LET element == self.elements[Queue_head(self)]
             taken == [self EXCEPT !.elements[Queue_head(self)] = None]
             l == Sub(self.length, 1)
         IN  IF is_some(element)
             THEN IF l.fault # NoFault THEN Panic(taken, l.fault)
                  ELSE Done([taken EXCEPT !.head = @ + 1, !.length = l.val], element)
             ELSE Done(taken, element)

Queue_dequeue_no_take(self) ==
    IF Queue_head(self) \notin DOMAIN self.elements THEN Panic(self, OutOfBounds)
    ELSE LET element == self.elements[Queue_head(self)]
             h == Rem(self.head + 1, Queue_capacity(self))
             l == Sub(self.length, 1)
         IN  IF is_some(element) /\ self.length > 0
             THEN IF h.fault # NoFault THEN Panic(self, h.fault)
                  ELSE Done([self EXCEPT !.head = h.val, !.length = l.val], element)
             ELSE Done(self, None)

\* Mutation of Queue_dequeue: head advances whether or not an element was taken.
Queue_dequeue_always_advance(self) ==
    IF Queue_head(self) \notin DOMAIN self.elements THEN Panic(self, OutOfBounds)
    ELSE LET element == self.elements[Queue_head(self)]
             taken == [self EXCEPT !.elements[Queue_head(self)] = None]
             h == Rem(self.head + 1, Queue_capacity(self))
             l == Sub(self.length, 1)
         IN  IF h.fault # NoFault THEN Panic(taken, h.fault)
             ELSE IF is_some(element)
             THEN IF l.fault # NoFault THEN Panic(taken, l.fault)
                  ELSE Done([taken EXCEPT !.head = h.val, !.length = l.val], element)
             ELSE Done([taken EXCEPT !.head = h.val], element)

Queue_dequeue(self) ==
    IF Queue_head(self) \notin DOMAIN self.elements THEN Panic(self, OutOfBounds)
    ELSE LET element == self.elements[Queue_head(self)]
             taken == [self EXCEPT !.elements[Queue_head(self)] = None]
             h == Rem(self.head + 1, Queue_capacity(self))
             l == Sub(self.length, 1)
         IN  IF is_some(element)
             THEN IF h.fault # NoFault THEN Panic(taken, h.fault)
                  ELSE IF l.fault # NoFault THEN Panic(taken, l.fault)
                  ELSE Done([taken EXCEPT !.head = h.val, !.length = l.val], element)
             ELSE Done(taken, element)

\* ---- Stack<T, C> --------------------------------------------------------
Stack_new ==
    [elements |-> [i \in 0..(C - 1) |-> None], length |-> 0]

Stack_capacity(self) == C

Stack_len(self) == self.length

Stack_is_empty(self) == Stack_len(self) = 0

\* Mutation of Stack_is_full: off by one.
Stack_is_full_early(self) == Stack_len(self) + 1 = Stack_capacity(self)

Stack_is_full(self) == Stack_len(self) = Stack_capacity(self)

\* Mutation of Stack_top: the bottom slot is taken for the top.
Stack_top_bottom(self) == Sub(Stack_len(self), Stack_len(self))

Stack_top(self) == Sub(Stack_len(self), 1)

Stack_as_slice(self) == self.elements

\* Mutation of Stack_get: the index counts down from the top.
Stack_get_from_top(self, index) ==
    IF index >= Stack_len(self) THEN Done(self, None)
    ELSE LET i == Stack_len(self) - 1 - index IN
         IF i \notin DOMAIN self.elements THEN Panic(self, OutOfBounds)
         ELSE Done(self, self.elements[i])

Stack_get(self, index) ==
    IF index >= Stack_len(self) THEN Done(self, None)
    ELSE IF index \notin DOMAIN self.elements THEN Panic(self, OutOfBounds)
    ELSE Done(self, self.elements[index])

\* Mutation of Stack_push: the element is written into the top slot, not above it.
Stack_push_at_top(self, element) ==
    IF Stack_is_full(self) THEN Done(self, Err(element))
    ELSE LET i == IF Stack_len(self) = 0 THEN 0 ELSE Stack_len(self) - 1 IN
         IF i \notin DOMAIN self.elements THEN Panic(self, OutOfBounds)
         ELSE Done([self EXCEPT !.elements[i] = Some(element),
                                !.length = @ + 1], Ok)

Stack_push(self, element) ==
    IF Stack_is_full(self) THEN Done(self, Err(element))
    ELSE IF Stack_len(self) \notin DOMAIN self.elements THEN Panic(self, OutOfBounds)
    ELSE Done([self EXCEPT !.elements[Stack_len(self)] = Some(element),
                           !.length = @ + 1], Ok)

\* Mutation of Stack_pop: the slot is read, not taken, so it keeps the element.
Stack_pop_no_take(self) ==
    IF Stack_is_empty(self) THEN Done(self, None)
    ELSE LET t == Stack_top(self)
             l == Sub(self.length, 1)
         IN  IF t.fault # NoFault THEN Panic(self, t.fault)
             ELSE IF t.val \notin DOMAIN self.elements THEN Panic(self, OutOfBounds)
             ELSE IF l.fault # NoFault THEN Panic(self, l.fault)
             ELSE Done([self EXCEPT !.length = l.val], self.elements[t.val])

Stack_pop(self) ==
    IF Stack_is_empty(self) THEN Done(self, None)
    ELSE LET t == Stack_top(self)
             l == Sub(self.length, 1)
         IN  IF t.fault # NoFault THEN Panic(self, t.fault)
             ELSE IF t.val \notin DOMAIN self.elements THEN Panic(self, OutOfBounds)
             ELSE IF l.fault # NoFault THEN Panic(self, l.fault)
             ELSE Done([self EXCEPT !.elements[t.val] = None, !.length = l.val],
                       self.elements[t.val])

\* ---- the state machine --------------------------------------------------
Init ==
    /\ C \in 0..MaxC
    /\ subject \in {"Queue", "Stack"}
    /\ queue = Queue_new
    /\ stack = Stack_new
    /\ op = "new"
    /\ arg = None
    /\ ret = None
    /\ fault = NoFault
    /\ enqueued = <<>>
    /\ dequeued = <<>>
    /\ live = <<>>
    /\ calls = 0

Running(s) == subject = s /\ fault = NoFault

Enqueue(element) ==
    /\ Running("Queue")
    /\ calls < MaxEnq
    /\ LET r == Queue_enqueue(queue, element) IN
       /\ queue' = r.self
       /\ ret' = r.ret
       /\ fault' = r.fault
       /\ enqueued' = IF r.fault = NoFault /\ r.ret = Ok
                      THEN Append(enqueued, element) ELSE enqueued
    /\ op' = "enqueue"
    /\ arg' = Some(element)
    /\ calls' = calls + 1
    /\ UNCHANGED <<C, subject, stack, dequeued, live>>

Dequeue ==
    /\ Running("Queue")
    /\ LET r == Queue_dequeue(queue) IN
       /\ queue' = r.self
       /\ ret' = r.ret
       /\ fault' = r.fault
       /\ dequeued' = IF r.fault = NoFault /\ is_some(r.ret)
                      THEN Append(dequeued, unwrap(r.ret)) ELSE dequeued
    /\ op' = "dequeue"
    /\ arg' = None
    /\ UNCHANGED <<C, subject, stack, enqueued, live, calls>>

QueueGet(index) ==
    /\ Running("Queue")
    /\ LET r == Queue_get(queue, index) IN
       /\ queue' = r.self
       /\ ret' = r.ret
       /\ fault' = r.fault
    /\ op' = "get"
    /\ arg' = Some(index)
    /\ UNCHANGED <<C, subject, stack, enqueued, dequeued, live, calls>>

Push(element) ==
    /\ Running("Stack")
    /\ calls < MaxEnq
    /\ LET r == Stack_push(stack, element) IN
       /\ stack' = r.self
       /\ ret' = r.ret
       /\ fault' = r.fault
       /\ live' = IF r.fault = NoFault /\ r.ret = Ok
                  THEN Append(live, element) ELSE live
    /\ op' = "push"
    /\ arg' = Some(element)
    /\ calls' = calls + 1
    /\ UNCHANGED <<C, subject, queue, enqueued, dequeued>>

Pop ==
    /\ Running("Stack")
    /\ LET r == Stack_pop(stack) IN
       /\ stack' = r.self
       /\ ret' = r.ret
       /\ fault' = r.fault
       /\ live' = IF r.fault = NoFault /\ is_some(r.ret) /\ Len(live) > 0
                  THEN SubSeq(live, 1, Len(live) - 1) ELSE live
    /\ op' = "pop"
    /\ arg' = None
    /\ UNCHANGED <<C, subject, queue, enqueued, dequeued, calls>>

StackGet(index) ==
    /\ Running("Stack")
    /\ LET r == Stack_get(stack, index) IN
       /\ stack' = r.self
       /\ ret' = r.ret
       /\ fault' = r.fault
    /\ op' = "get"
    /\ arg' = Some(index)
    /\ UNCHANGED <<C, subject, queue, enqueued, dequeued, live, calls>>

Next ==
    \/ \E element \in Vals : Enqueue(element)
    \/ Dequeue
    \/ \E index \in Indices : QueueGet(index)
    \/ \E element \in Vals : Push(element)
    \/ Pop
    \/ \E index \in Indices : StackGet(index)

Spec == Init /\ [][Next]_vars

\* ---- C1 -----------------------------------------------------------------
\* C1: for every capacity C >= 1, after every call on the Queue and on the
\* Stack (successful or failed), 0 <= len() <= capacity(), and capacity() is
\* C, the number of slots of the backing array.
CapacityInvariant ==
    C >= 1 =>
        /\ 0 <= Queue_len(queue)
        /\ Queue_len(queue) <= Queue_capacity(queue)
        /\ Queue_capacity(queue) = Cardinality(DOMAIN Queue_as_slice(queue))
        /\ 0 <= Stack_len(stack)
        /\ Stack_len(stack) <= Stack_capacity(stack)
        /\ Stack_capacity(stack) = Cardinality(DOMAIN Stack_as_slice(stack))

\* A full queue that has already been through dequeues has just refused an element.
CapacityWitness ==
    /\ C >= 1
    /\ subject = "Queue"
    /\ op = "enqueue"
    /\ ret[1] = "Err"
    /\ Len(dequeued) > 0
    /\ Queue_len(queue) = Queue_capacity(queue)

\* ---- C2 -----------------------------------------------------------------
\* The logical contents of the queue, front first, as get() reports them.
QueueContents(self) ==
    [i \in 1..Queue_len(self) |-> Queue_get(self, i - 1).ret]

\* C2: strict FIFO.  For C >= 1 the elements returned by dequeue so far are,
\* in order, the first elements accepted by enqueue (the k-th Some is the
\* k-th Ok), and the elements accepted but not yet returned are exactly the
\* queue's contents, in order: nothing is lost, duplicated or reordered.
FifoOrder ==
    (C >= 1 /\ subject = "Queue") =>
        /\ Len(dequeued) <= Len(enqueued)
        /\ \A k \in 1..Len(dequeued) : dequeued[k] = enqueued[k]
        /\ Queue_len(queue) = Len(enqueued) - Len(dequeued)
        /\ \A i \in 1..Queue_len(queue) :
              QueueContents(queue)[i] = Some(enqueued[Len(dequeued) + i])

\* head has gone round the array at least twice, with unequal elements, and
\* accepted elements are still waiting.
FifoWitness ==
    /\ subject = "Queue"
    /\ C >= 2
    /\ op = "dequeue"
    /\ is_some(ret)
    /\ Len(dequeued) >= 2 * C
    /\ dequeued[1] # dequeued[2]
    /\ Queue_len(queue) > 0

\* ---- C3 -----------------------------------------------------------------
\* C3: strict LIFO.  For C >= 1 every pop that returns Some returns the
\* element of the most recent successful push not yet popped.
LifoOrder ==
    [][(C >= 1 /\ Pop /\ is_some(ret')) =>
            (Len(live) > 0 /\ ret' = Some(live[Len(live)]))]_vars

\* A pop has returned the newer of two unequal elements.
LifoWitness ==
    /\ subject = "Stack"
    /\ C >= 2
    /\ op = "pop"
    /\ ret = Some(2)
    /\ live = <<1>>

\* ---- C4 -----------------------------------------------------------------
\* C4: when len() = capacity(), enqueue(x) (resp. push(x)) returns Err(x) and
\* leaves length, every slot and (for the queue) head as they were.
FullRejection ==
    [][\A x \in Vals :
        /\ (Enqueue(x) /\ Queue_len(queue) = Queue_capacity(queue)) =>
              /\ ret' = Err(x)
              /\ Queue_len(queue') = Queue_len(queue)
              /\ Queue_as_slice(queue') = Queue_as_slice(queue)
              /\ Queue_head(queue') = Queue_head(queue)
        /\ (Push(x) /\ Stack_len(stack) = Stack_capacity(stack)) =>
              /\ ret' = Err(x)
              /\ Stack_len(stack') = Stack_len(stack)
              /\ Stack_as_slice(stack') = Stack_as_slice(stack)]_vars

\* A full queue whose head is not 0 has just refused an element.
FullRejectionWitness ==
    /\ subject = "Queue"
    /\ C >= 2
    /\ op = "enqueue"
    /\ ret[1] = "Err"
    /\ Queue_head(queue) > 0
    /\ Queue_len(queue) = Queue_capacity(queue)

\* ---- C5 -----------------------------------------------------------------
\* C5: for C >= 1, when len() = 0, dequeue() (resp. pop()) returns None and
\* leaves length, every slot and (for the queue) head as they were.
EmptyRejection ==
    [][C >= 1 =>
        /\ (Dequeue /\ Queue_len(queue) = 0) =>
              /\ ret' = None
              /\ Queue_len(queue') = Queue_len(queue)
              /\ Queue_as_slice(queue') = Queue_as_slice(queue)
              /\ Queue_head(queue') = Queue_head(queue)
        /\ (Pop /\ Stack_len(stack) = 0) =>
              /\ ret' = None
              /\ Stack_len(stack') = Stack_len(stack)
              /\ Stack_as_slice(stack') = Stack_as_slice(stack)]_vars

\* A queue that was filled and drained, its head past slot 0, has returned None.
EmptyRejectionWitness ==
    /\ subject = "Queue"
    /\ C = 3
    /\ op = "dequeue"
    /\ ret = None
    /\ Len(dequeued) = 4
    /\ Queue_head(queue) = 1
    /\ Queue_len(queue) = 0

\* ---- C6 -----------------------------------------------------------------
\* C6: for every capacity C >= 0, the zero-capacity container included, no
\* call of enqueue, dequeue, get, push or pop is fatal: none indexes the
\* array out of bounds, takes a remainder by zero or underflows.
NoFatalOperation == fault = NoFault

\* ---- C7 -----------------------------------------------------------------
\* C7: for C >= 1 and every index, get(index) returns Some exactly when
\* index < len(), on the Queue and on the Stack, and leaves the container
\* as it was.
IndexBound ==
    [][C >= 1 => \A index \in Indices :
        /\ QueueGet(index) =>
              /\ is_some(ret') <=> index < Queue_len(queue)
              /\ fault' = NoFault
              /\ queue' = queue
        /\ StackGet(index) =>
              /\ is_some(ret') <=> index < Stack_len(stack)
              /\ fault' = NoFault
              /\ stack' = stack]_vars

\* get(3) on a capacity-3 queue of two elements: slot (head + 3) mod 3 is
\* occupied, and None was returned.
IndexBoundWitness ==
    /\ subject = "Queue"
    /\ C = 3
    /\ op = "get"
    /\ arg = Some(3)
    /\ ret = None
    /\ Queue_len(queue) = 2
    /\ is_some(Queue_as_slice(queue)[(Queue_head(queue) + 3) % C])

\* ---- C8 -----------------------------------------------------------------
\* The queue after n further dequeue() calls.
RECURSIVE DequeueTimes(_, _)
DequeueTimes(self, n) ==
    IF n = 0 THEN self ELSE DequeueTimes(Queue_dequeue(self).self, n - 1)

\* C8: for C >= 1 and every i < len(), get(i) is the element that the
\* (i+1)-th subsequent dequeue() returns, also when head + i >= C.
GetIsLogicalOrder ==
    (C >= 1 /\ subject = "Queue") =>
        \A i \in 0..(Queue_len(queue) - 1) :
            /\ is_some(Queue_get(queue, i).ret)
            /\ Queue_get(queue, i).ret = Queue_dequeue(DequeueTimes(queue, i)).ret

\* The occupied region wraps: two unequal elements in slots 2 and 0 of 3.
GetIsLogicalOrderWitness ==
    /\ subject = "Queue"
    /\ C = 3
    /\ Queue_head(queue) = 2
    /\ Queue_len(queue) = 2
    /\ Queue_get(queue, 0).ret # Queue_get(queue, 1).ret

\* ---- C9 -----------------------------------------------------------------
\* Indices of the slots that hold an element.
Occupied(elements) == {j \in DOMAIN elements : elements[j] # None}

\* C9: for C >= 1 the occupied slots of the queue are exactly the slots
\* (head + i) mod C for 0 <= i < len(); there are len() of them and every
\* other slot is None.
QueueOccupancy ==
    (C >= 1 /\ subject = "Queue") =>
        /\ Occupied(Queue_as_slice(queue)) =
              {(Queue_head(queue) + i) % C : i \in 0..(Queue_len(queue) - 1)}
        /\ Cardinality(Occupied(Queue_as_slice(queue))) = Queue_len(queue)

\* After a dequeue the occupied region wraps round the end of the array.
QueueOccupancyWitness ==
    /\ subject = "Queue"
    /\ C = 3
    /\ op = "dequeue"
    /\ is_some(ret)
    /\ Queue_head(queue) = 2
    /\ Queue_len(queue) = 2

\* ---- C10 ----------------------------------------------------------------
\* C10: for C >= 1 the occupied slots of the stack are exactly 0..len()-1,
\* the slots from len() on are None, and slot j holds the (j+1)-th oldest
\* element not yet popped.
StackOccupancy ==
    (C >= 1 /\ subject = "Stack") =>
        /\ Occupied(Stack_as_slice(stack)) = 0..(Stack_len(stack) - 1)
        /\ Len(live) = Stack_len(stack)
        /\ \A j \in 0..(Stack_len(stack) - 1) :
              Stack_as_slice(stack)[j] = Some(live[j + 1])

\* A pop has cleared slot 1 and two unequal elements remain below it.
StackOccupancyWitness ==
    /\ subject = "Stack"
    /\ C = 3
    /\ op = "pop"
    /\ is_some(ret)
    /\ Stack_len(stack) = 2
    /\ live = <<1, 2>>

\* ---- C11 ----------------------------------------------------------------
\* C11: for C >= 1 and every i < len(), Stack::get(i) is the (i+1)-th oldest
\* element still on the stack (get(0) is the bottom), and get(len() - 1) is
\* the element the next pop() returns.
StackGetFromBottom ==
    (C >= 1 /\ subject = "Stack") =>
        /\ Len(live) = Stack_len(stack)
        /\ \A i \in 0..(Stack_len(stack) - 1) :
              Stack_get(stack, i).ret = Some(live[i + 1])
        /\ Stack_len(stack) > 0 =>
              Stack_get(stack, Stack_len(stack) - 1).ret = Stack_pop(stack).ret

\* Three elements, bottom and top unequal, pushed after an earlier pop.
StackGetFromBottomWitness ==
    /\ subject = "Stack"
    /\ C = 3
    /\ op = "push"
    /\ ret = Ok
    /\ calls >= 4
    /\ live = <<1, 2, 2>>

\* ---- scenarios ----------------------------------------------------------
\* The scenarios use the elements 1..4 on a Queue<usize, 3> and a
\* Stack<usize, 2>; any other call may be made in between.
ScenarioVals == 1..4

InitScenario == Init /\ C \in {2, 3}

NextScenario ==
    \/ \E element \in ScenarioVals : Enqueue(element)
    \/ Dequeue
    \/ \E element \in ScenarioVals : Push(element)
    \/ Pop

SpecScenario == InitScenario /\ [][NextScenario]_vars

\* The array [s[1], ..., s[n]], indexed from 0.
Slots(s) == [i \in 0..(Len(s) - 1) |-> s[i + 1]]

QueueValue(s, head, length) == [elements |-> Slots(s), head |-> head, length |-> length]

StackValue(s, length) == [elements |-> Slots(s), length |-> length]

\* ---- C12 ----------------------------------------------------------------
\* C12: on a queue of capacity 3, from new(): enqueue(1), enqueue(2),
\* enqueue(3) return Ok and fill the queue; dequeue() returns Some(1);
\* enqueue(4) returns Ok and is written into slot 0, leaving
\* [Some(4), Some(2), Some(3)] with head = 1; three more dequeues return
\* Some(2), Some(3), Some(4), and a fourth returns None.
WraparoundScenario ==
    [][C = 3 =>
        /\ (op = "new" /\ Enqueue(1)) =>
              /\ queue = QueueValue(<<None, None, None>>, 0, 0)
              /\ ret' = Ok
              /\ queue' = QueueValue(<<Some(1), None, None>>, 0, 1)
        /\ (queue = QueueValue(<<Some(1), None, None>>, 0, 1) /\ Enqueue(2)) =>
              /\ ret' = Ok
              /\ queue' = QueueValue(<<Some(1), Some(2), None>>, 0, 2)
        /\ (queue = QueueValue(<<Some(1), Some(2), None>>, 0, 2) /\ Enqueue(3)) =>
              /\ ret' = Ok
              /\ queue' = QueueValue(<<Some(1), Some(2), Some(3)>>, 0, 3)
              /\ Queue_is_full(queue')
        /\ (queue = QueueValue(<<Some(1), Some(2), Some(3)>>, 0, 3) /\ Dequeue) =>
              /\ ret' = Some(1)
              /\ queue' = QueueValue(<<None, Some(2), Some(3)>>, 1, 2)
        /\ (queue = QueueValue(<<None, Some(2), Some(3)>>, 1, 2) /\ Enqueue(4)) =>
              /\ ret' = Ok
              /\ queue' = QueueValue(<<Some(4), Some(2), Some(3)>>, 1, 3)
        /\ (queue = QueueValue(<<Some(4), Some(2), Some(3)>>, 1, 3) /\ Dequeue) =>
              /\ ret' = Some(2)
              /\ queue' = QueueValue(<<Some(4), None, Some(3)>>, 2, 2)
        /\ (queue = QueueValue(<<Some(4), None, Some(3)>>, 2, 2) /\ Dequeue) =>
              /\ ret' = Some(3)
              /\ queue' = QueueValue(<<Some(4), None, None>>, 0, 1)
        /\ (queue = QueueValue(<<Some(4), None, None>>, 0, 1) /\ Dequeue) =>
              /\ ret' = Some(4)
              /\ queue' = QueueValue(<<None, None, None>>, 1, 0)
        /\ (queue = QueueValue(<<None, None, None>>, 1, 0) /\ Dequeue) =>
              /\ ret' = None
              /\ queue' = QueueValue(<<None, None, None>>, 1, 0)]_vars

\* The end of the scenario: four calls of enqueue, 1..4 accepted and
\* returned in order, and the last dequeue returned None.
WraparoundScenarioWitness ==
    /\ subject = "Queue"
    /\ C = 3
    /\ calls = 4
    /\ enqueued = <<1, 2, 3, 4>>
    /\ dequeued = <<1, 2, 3, 4>>
    /\ op = "dequeue"
    /\ ret = None
    /\ queue = QueueValue(<<None, None, None>>, 1, 0)

\* ---- C13 ----------------------------------------------------------------
\* C13: on a stack of capacity 2, from new(): push(1) and push(2) return Ok,
\* push(3) returns Err(3), pop() returns Some(2) leaving len() = 1, pop()
\* returns Some(1) leaving len() = 0 with is_empty() and not is_full(), and
\* a third pop() returns None.
StackDrainScenario ==
    [][C = 2 =>
        /\ (op = "new" /\ Push(1)) =>
              /\ stack = StackValue(<<None, None>>, 0)
              /\ ret' = Ok
              /\ stack' = StackValue(<<Some(1), None>>, 1)
        /\ (stack = StackValue(<<Some(1), None>>, 1) /\ Push(2)) =>
              /\ ret' = Ok
              /\ stack' = StackValue(<<Some(1), Some(2)>>, 2)
        /\ (stack = StackValue(<<Some(1), Some(2)>>, 2) /\ Push(3)) =>
              /\ ret' = Err(3)
              /\ stack' = StackValue(<<Some(1), Some(2)>>, 2)
        /\ (stack = StackValue(<<Some(1), Some(2)>>, 2) /\ Pop) =>
              /\ ret' = Some(2)
              /\ stack' = StackValue(<<Some(1), None>>, 1)
              /\ Stack_len(stack') = 1
        /\ (stack = StackValue(<<Some(1), None>>, 1) /\ Pop) =>
              /\ ret' = Some(1)
              /\ stack' = StackValue(<<None, None>>, 0)
              /\ Stack_len(stack') = 0
              /\ Stack_is_empty(stack')
              /\ ~Stack_is_full(stack')
        /\ (stack = StackValue(<<None, None>>, 0) /\ Pop) =>
              /\ ret' = None
              /\ stack' = StackValue(<<None, None>>, 0)]_vars

\* The end of the scenario: three calls of push, the stack drained, and the
\* last pop returned None.
StackDrainScenarioWitness ==
    /\ subject = "Stack"
    /\ C = 2
    /\ calls = 3
    /\ live = <<>>
    /\ op = "pop"
    /\ ret = None
    /\ stack = StackValue(<<None, None>>, 0)

\* ---- C14 ----------------------------------------------------------------
\* C14: for C >= 1, a successful enqueue(x) adds 1 to length, keeps head,
\* advances tail() by one modulo C and changes only the slot at the old
\* tail, to Some(x); a successful dequeue() subtracts 1 from length, sets
\* head to (head + 1) mod C, keeps tail() and changes only the slot at the
\* old head, to None; a failed call changes nothing.
QueueStepFrame ==
    [][C >= 1 =>
        /\ \A x \in Vals : Enqueue(x) =>
              IF ret' = Ok
              THEN /\ Queue_len(queue') = Queue_len(queue) + 1
                   /\ Queue_head(queue') = Queue_head(queue)
                   /\ Queue_tail(queue').val = (Queue_tail(queue).val + 1) % C
                   /\ Queue_as_slice(queue') =
                         [Queue_as_slice(queue) EXCEPT ![Queue_tail(queue).val] = Some(x)]
              ELSE queue' = queue
        /\ Dequeue =>
              IF is_some(ret')
              THEN /\ Queue_len(queue') = Queue_len(queue) - 1
                   /\ Queue_head(queue') = (Queue_head(queue) + 1) % C
                   /\ Queue_tail(queue').val = Queue_tail(queue).val
                   /\ Queue_as_slice(queue') =
                         [Queue_as_slice(queue) EXCEPT ![Queue_head(queue)] = None]
                   /\ Queue_as_slice(queue)[Queue_head(queue)] = ret'
              ELSE queue' = queue
        /\ Queue_len(queue') - Queue_len(queue) \in {-1, 0, 1}]_vars

\* An enqueue has succeeded at the last slot, taking tail() round to slot 0.
QueueStepFrameWitness ==
    /\ subject = "Queue"
    /\ C = 3
    /\ op = "enqueue"
    /\ ret = Ok
    /\ Queue_head(queue) = 1
    /\ Queue_tail(queue).val = 0
    /\ Len(dequeued) = 1

\* ---- C15 ----------------------------------------------------------------
\* C15: for C >= 1, a successful push(x) writes Some(x) into slot len(), adds
\* 1 to length and changes no other slot; a successful pop() takes the
\* element of slot len() - 1, sets that slot to None, subtracts 1 from length
\* and changes no other slot.
StackStepFrame ==
    [][C >= 1 =>
        /\ \A x \in Vals : (Push(x) /\ ret' = Ok) =>
              /\ Stack_len(stack') = Stack_len(stack) + 1
              /\ Stack_as_slice(stack') =
                    [Stack_as_slice(stack) EXCEPT ![Stack_len(stack)] = Some(x)]
        /\ (Pop /\ is_some(ret')) =>
              /\ Stack_len(stack) >= 1
              /\ Stack_len(stack') = Stack_len(stack) - 1
              /\ ret' = Stack_as_slice(stack)[Stack_len(stack) - 1]
              /\ Stack_as_slice(stack') =
                    [Stack_as_slice(stack) EXCEPT ![Stack_len(stack) - 1] = None]]_vars

\* A push has succeeded on top of an element left by an earlier pop.
StackStepFrameWitness ==
    /\ subject = "Stack"
    /\ C >= 2
    /\ op = "push"
    /\ ret = Ok
    /\ calls >= 3
    /\ Stack_len(stack) = 2

\* ---- C16 ----------------------------------------------------------------
\* C16: for C >= 1, dequeue() returns Some exactly when len() > 0 and None
\* exactly when len() = 0, also on a full queue and after head has wrapped;
\* enqueue returns Ok exactly when len() < C.
DequeueAgreesWithLength ==
    [][C >= 1 =>
        /\ Dequeue =>
              /\ is_some(ret') <=> Queue_len(queue) > 0
              /\ ret' = None <=> Queue_len(queue) = 0
        /\ \A x \in Vals : Enqueue(x) =>
              (ret' = Ok <=> Queue_len(queue) < C)]_vars

\* A dequeue has returned Some from a full queue whose head had wrapped.
DequeueAgreesWithLengthWitness ==
    /\ subject = "Queue"
    /\ C >= 2
    /\ op = "dequeue"
    /\ is_some(ret)
    /\ Queue_len(queue) = C - 1
    /\ Len(dequeued) > C

\* ---- C17 ----------------------------------------------------------------
\* C17: for every C >= 1 a container returned by new() has len() = 0,
\* capacity() = C, C slots that are all None, is_empty() true and is_full()
\* false; the queue also has head = 0 and tail() = 0.
NewIsEmpty ==
    (C >= 1 /\ op = "new") =>
        /\ Queue_len(queue) = 0
        /\ Queue_capacity(queue) = C
        /\ DOMAIN Queue_as_slice(queue) = 0..(C - 1)
        /\ \A j \in 0..(C - 1) : Queue_as_slice(queue)[j] = None
        /\ Queue_is_empty(queue)
        /\ ~Queue_is_full(queue)
        /\ Queue_head(queue) = 0
        /\ Queue_tail(queue) = [val |-> 0, fault |-> NoFault]
        /\ Stack_len(stack) = 0
        /\ Stack_capacity(stack) = C
        /\ DOMAIN Stack_as_slice(stack) = 0..(C - 1)
        /\ \A j \in 0..(C - 1) : Stack_as_slice(stack)[j] = None
        /\ Stack_is_empty(stack)
        /\ ~Stack_is_full(stack)

\* A capacity-3 queue straight from new().
NewIsEmptyWitness ==
    /\ subject = "Queue"
    /\ C = 3
    /\ op = "new"
    /\ calls = 0
    /\ queue = Queue_new

\* ---- C18 ----------------------------------------------------------------
\* C18: in every reachable state of both containers is_empty() is true iff
\* the length is 0 and is_full() is true iff the length is the capacity; for
\* C >= 1 they are never both true, and for C = 1 exactly one of them is.
EmptyFullTrackLength ==
    /\ Queue_is_empty(queue) <=> queue.length = 0
    /\ Queue_is_full(queue) <=> queue.length = C
    /\ Stack_is_empty(stack) <=> stack.length = 0
    /\ Stack_is_full(stack) <=> stack.length = C
    /\ C >= 1 => /\ ~(Queue_is_empty(queue) /\ Queue_is_full(queue))
                 /\ ~(Stack_is_empty(stack) /\ Stack_is_full(stack))
    /\ C = 1 => /\ Queue_is_empty(queue) # Queue_is_full(queue)
                /\ Stack_is_empty(stack) # Stack_is_full(stack)

\* A capacity-1 stack that is full after a pop and a second push.
EmptyFullTrackLengthWitness ==
    /\ subject = "Stack"
    /\ C = 1
    /\ op = "push"
    /\ ret = Ok
    /\ calls >= 2
    /\ Stack_is_full(stack)
    /\ ~Stack_is_empty(stack)

\* ---- C19 ----------------------------------------------------------------
\* C19: for C >= 1, in every reachable state of the queue 0 <= head < C and
\* 0 <= tail() < C, and tail() = head exactly when len() = 0 or len() = C.
HeadTailInvariant ==
    (C >= 1 /\ subject = "Queue") =>
        /\ 0 <= Queue_head(queue)
        /\ Queue_head(queue) < C
        /\ Queue_tail(queue).fault = NoFault
        /\ 0 <= Queue_tail(queue).val
        /\ Queue_tail(queue).val < C
        /\ Queue_tail(queue).val = Queue_head(queue)
              <=> (Queue_len(queue) = 0 \/ Queue_len(queue) = C)

\* A full queue whose head, and so tail(), is not slot 0.
HeadTailInvariantWitness ==
    /\ subject = "Queue"
    /\ C = 3
    /\ op = "enqueue"
    /\ ret = Ok
    /\ Queue_len(queue) = C
    /\ Queue_head(queue) = 2
    /\ Queue_tail(queue).val = 2

\* ---- C20 ----------------------------------------------------------------
\* The queue with the length and the logical contents of `self` and its
\* head moved k slots on: logical position i, held by `self` in slot
\* (head + i) mod C, is held in slot (head + k + i) mod C.
Twin(self, k) ==
    LET h == (self.head + k) % C
        pos(j) == (j - h + C) % C
    IN  [elements |-> [j \in 0..(C - 1) |->
                          IF pos(j) < self.length
                          THEN self.elements[(self.head + pos(j)) % C]
                          ELSE None],
         head |-> h,
         length |-> self.length]

\* C20: for C >= 1, a queue with the same len() and the same logical
\* contents as a reachable queue but another head gives the same results
\* for len, is_empty, is_full, every get, every enqueue and dequeue, and the
\* two queues left by a call are again equal up to the head; so every
\* common sequence of calls returns the same values on both.
HeadIndependence ==
    (C >= 1 /\ subject = "Queue") =>
        /\ queue = Twin(queue, 0)
        /\ \A k \in 1..(C - 1) :
              LET twin == Twin(queue, k) IN
              /\ Queue_head(twin) # Queue_head(queue)
              /\ Queue_len(twin) = Queue_len(queue)
              /\ Queue_is_empty(twin) = Queue_is_empty(queue)
              /\ Queue_is_full(twin) = Queue_is_full(queue)
              /\ \A i \in Indices :
                    /\ Queue_get(twin, i).ret = Queue_get(queue, i).ret
                    /\ Queue_get(twin, i).fault = Queue_get(queue, i).fault
              /\ \A x \in Vals :
                    /\ Queue_enqueue(twin, x).ret = Queue_enqueue(queue, x).ret
                    /\ Queue_enqueue(twin, x).fault = Queue_enqueue(queue, x).fault
                    /\ Queue_enqueue(twin, x).self = Twin(Queue_enqueue(queue, x).self, k)
              /\ Queue_dequeue(twin).ret = Queue_dequeue(queue).ret
              /\ Queue_dequeue(twin).fault = Queue_dequeue(queue).fault
              /\ Queue_dequeue(twin).self = Twin(Queue_dequeue(queue).self, k)

\* A wrapped queue of two unequal elements whose twin has other slots.
HeadIndependenceWitness ==
    /\ subject = "Queue"
    /\ C = 3
    /\ Queue_head(queue) = 2
    /\ Queue_len(queue) = 2
    /\ Queue_get(queue, 0).ret # Queue_get(queue, 1).ret
    /\ Queue_as_slice(Twin(queue, 1)) # Queue_as_slice(queue)
    /\ Len(dequeued) = 2

====
